---- MODULE Spec2Model ----
(***************************************************************************)
(* The layout pass of alluvialflow (AlluvialFlowLayout.__layout) as a      *)
(* state machine.  One behaviour is one construction of a layout from a    *)
(* data source: Init draws the data source (nodes, sequence, flows) and    *)
(* the constructor options, and the actions walk through __layout one      *)
(* loop iteration at a time.                                               *)
(*                                                                         *)
(* Sizes are even integers, so that size/2.0 (the band centre) is exact.   *)
(***************************************************************************)
EXTENDS Integers, Sequences, FiniteSets, TLC

\* ------------------------------------------------------------------ bounds
\* The data sources explored are the full table (every node has size 4 at
\* every step, no flows) changed in at most MaxEdits places.  A change drops
\* a sequence entry, gives it size 2, or adds a flow entry of size 2 or 4.
MaxEdits == 2

NodeLists == { <<"A", "B">> }
NodeNames == {"A", "B"}
StepUniverse == {1, 2, 3}
Sizes == {2, 4}
Margins == {2}

\* ------------------------------------------------------------ data source
SeqKeys == StepUniverse \X NodeNames
FlowKeys == { <<s, n1, s + 1, n2>> : s \in {t \in StepUniverse : t + 1 \in StepUniverse},
                                     n1 \in NodeNames, n2 \in NodeNames }

\* the places changed: D1 in the sequence, D2 in the flows
EditSets ==
  { e \in (SUBSET SeqKeys) \X (SUBSET FlowKeys) :
      Cardinality(e[1]) + Cardinality(e[2]) <= MaxEdits }

\* a1[key] = 0 drops the sequence entry, a1[key] = 2 resizes it
SequenceOf(D1, a1) ==
  [key \in {x \in SeqKeys : x \in D1 => a1[x] # 0} |->
     IF key \in D1 THEN a1[key] ELSE 4]

ScaleDomain == Sizes
ScaleIdentity == [n \in ScaleDomain |-> n]
ScaleSquare == [n \in ScaleDomain |-> n * n]
ScaleFunctions == { ScaleIdentity, ScaleSquare }

\* ----------------------------------------------------------------- helpers
Max(a, b) == IF a >= b THEN a ELSE b

MinOf(S) == CHOOSE x \in S : \A y \in S : x <= y

RECURSIVE SortedSeq(_)
SortedSeq(S) == IF S = {} THEN << >>
                ELSE <<MinOf(S)>> \o SortedSeq(S \ {MinOf(S)})

IndexLevel0Unpruned(seq) == SortedSeq(StepUniverse)

\* sequence.index.levels[0]: the distinct steps of the sequence, sorted
IndexLevel0(seq) == SortedSeq({ k[1] : k \in DOMAIN seq })

\* dict assignment d[k] = v
Put(d, k, v) == [x \in (DOMAIN d) \cup {k} |-> IF x = k THEN v ELSE d[x]]

EmptyDict == [x \in {} |-> 0]

miny == 0

VARIABLES
  nodes, sequence, flows,                       \* the data source
  node_margin, scale_weights, compact, show_stationary_component,
  steps, maxy,
  node1_y1, node1_y2, node2_y1, node2_y2,
  node_maxsize,
  edge_node1_y, edge_node2_y, edge_size,
  pos,
  pc, pair, k,                                  \* position inside __layout
  earlier                  \* what an earlier layout of the data source gave

vars == << nodes, sequence, flows, node_margin, scale_weights, compact,
           show_stationary_component, steps, maxy, node1_y1, node1_y2,
           node2_y1, node2_y2, node_maxsize, edge_node1_y, edge_node2_y,
           edge_size, pos, pc, pair, k, earlier >>

inputs == << nodes, sequence, flows, node_margin, scale_weights, compact,
             show_stationary_component >>

\* no earlier layout: nothing was removed from the data source yet
NoEarlier == [removed |-> << >>, size |-> 0, steps |-> << >>,
              node1_height |-> EmptyDict, node2_height |-> EmptyDict]

Init ==
  /\ nodes \in NodeLists
  /\ \E e \in EditSets :
       /\ \E a1 \in [e[1] -> {0, 2}] : sequence = SequenceOf(e[1], a1)
       /\ flows \in [e[2] -> Sizes]
  /\ node_margin \in Margins
  /\ scale_weights \in ScaleFunctions
  /\ compact \in BOOLEAN
  /\ show_stationary_component \in BOOLEAN
  /\ steps = << >>
  /\ maxy = 0
  /\ node1_y1 = EmptyDict /\ node1_y2 = EmptyDict
  /\ node2_y1 = EmptyDict /\ node2_y2 = EmptyDict
  /\ node_maxsize = EmptyDict
  /\ edge_node1_y = EmptyDict /\ edge_node2_y = EmptyDict
  /\ edge_size = EmptyDict
  /\ pos = 0
  /\ pc = "start"
  /\ pair = 1
  /\ k = 1
  /\ earlier = NoEarlier

\* lines 61-81 and 95-100: read the data source, reset the outputs
Begin ==
  /\ pc = "start"
  /\ steps' = IndexLevel0(sequence)
  /\ maxy' = 0
  /\ node1_y1' = EmptyDict /\ node1_y2' = EmptyDict
  /\ node2_y1' = EmptyDict /\ node2_y2' = EmptyDict
  /\ node_maxsize' = EmptyDict
  /\ edge_node1_y' = EmptyDict /\ edge_node2_y' = EmptyDict
  /\ edge_size' = EmptyDict
  /\ pos' = 0
  /\ pair' = 1
  /\ k' = 1
  /\ pc' = IF compact = FALSE THEN "maxsize" ELSE "pairs"
  /\ UNCHANGED << inputs, earlier >>

\* df.loc[key] succeeds iff the key is in the index; otherwise KeyError
HasEntry(df, key) == key \in DOMAIN df

\* "except KeyError: pass" (lines 92-93, 111-113, 130-131, 134-135, 157-158,
\* 161-162): the handler swallows the error and control continues at next
OnKeyErrorRaise(next) == "raised"
OnKeyError(next) == next

\* read of a defaultdict(lambda: 0)
Get0(d, key) == IF key \in DOMAIN d THEN d[key] ELSE 0

\* line 91: max(self.node_maxsize[node1], node_size)
UpdateMaxSizeLast(cur, node_size) == node_size
UpdateMaxSize(cur, node_size) == Max(cur, node_size)

\* lines 86-93: for step in steps: for node1 in nodes: ...
RECURSIVE MaxSizeLoop(_, _, _)
MaxSizeLoop(i, j, d) ==
  IF i > Len(steps) THEN d
  ELSE IF j > Len(nodes) THEN MaxSizeLoop(i + 1, 1, d)
  ELSE LET key == <<steps[i], nodes[j]>> IN
       IF HasEntry(sequence, key)
       THEN MaxSizeLoop(i, j + 1,
              Put(d, nodes[j],
                  UpdateMaxSize(Get0(d, nodes[j]), scale_weights[sequence[key]])))
       ELSE MaxSizeLoop(i, j + 1, d)

\* some (step, node) of the pre-pass has no sequence entry
MaxSizeMiss == \E i \in 1 .. Len(steps), j \in 1 .. Len(nodes) :
                 ~HasEntry(sequence, <<steps[i], nodes[j]>>)

\* lines 84-93: node -> size pre-pass of the non-compact mode
MaxSizePrePass ==
  /\ pc = "maxsize"
  /\ node_maxsize' = MaxSizeLoop(1, 1, EmptyDict)
  /\ pc' = IF MaxSizeMiss THEN OnKeyError("pairs") ELSE "pairs"
  /\ UNCHANGED << inputs, earlier, steps, maxy, node1_y1, node1_y2, node2_y1, node2_y2,
                  edge_node1_y, edge_node2_y, edge_size, pos, pair, k >>

\* the step pair of the current iteration of line 102
step1 == steps[pair]
step2 == steps[pair + 1]

RECURSIVE EdgeSizeLoopDefault(_, _, _)
EdgeSizeLoopDefault(i, j, d) ==
  IF i > Len(nodes) THEN d
  ELSE IF j > Len(nodes) THEN EdgeSizeLoopDefault(i + 1, 1, d)
  ELSE LET key == <<steps[pair], nodes[i], steps[pair + 1], nodes[j]>> IN
       EdgeSizeLoopDefault(i, j + 1,
         Put(d, <<steps[pair], nodes[i], nodes[j]>>,
             IF HasEntry(flows, key) THEN scale_weights[flows[key]] ELSE 0))

\* lines 105-113: edge sizes of one step pair
RECURSIVE EdgeSizeLoop(_, _, _)
EdgeSizeLoop(i, j, d) ==
  IF i > Len(nodes) THEN d
  ELSE IF j > Len(nodes) THEN EdgeSizeLoop(i + 1, 1, d)
  ELSE LET key == <<step1, nodes[i], step2, nodes[j]>> IN
       IF HasEntry(flows, key)
       THEN EdgeSizeLoop(i, j + 1,
              Put(d, <<step1, nodes[i], nodes[j]>>, scale_weights[flows[key]]))
       ELSE EdgeSizeLoop(i, j + 1, d)

FlowMiss(s1, s2) == \E i \in 1 .. Len(nodes), j \in 1 .. Len(nodes) :
                      ~HasEntry(flows, <<s1, nodes[i], s2, nodes[j]>>)

\* lines 102-116: next step pair, its edge sizes, pos reset for source ports
EdgeSizes ==
  /\ pc = "pairs"
  /\ pair < Len(steps)
  /\ edge_size' = EdgeSizeLoop(1, 1, edge_size)
  /\ pos' = miny
  /\ k' = 1
  /\ pc' = IF FlowMiss(step1, step2) THEN OnKeyError("source") ELSE "source"
  /\ UNCHANGED << inputs, earlier, steps, maxy, node1_y1, node1_y2, node2_y1, node2_y2,
                  node_maxsize, edge_node1_y, edge_node2_y, pair >>

\* line 127 / 154: pos + (size/2.0)
FlowCentreTop(p, size) == p
FlowCentre(p, size) == p + (size \div 2)

RECURSIVE SourceFlowsNoAdvance(_, _, _)
SourceFlowsNoAdvance(j, node1, acc) ==
  IF j > Len(nodes) THEN acc
  ELSE LET node2 == nodes[j]
           key == <<steps[pair], node1, steps[pair + 1], node2>>
       IN IF HasEntry(flows, key)
          THEN LET size == scale_weights[flows[key]] IN
               SourceFlowsNoAdvance(j + 1, node1,
                 [pos |-> acc.pos,
                  total |-> acc.total + size,
                  y |-> Put(acc.y, <<steps[pair], node1, node2>>,
                            acc.pos + (size \div 2))])
          ELSE SourceFlowsNoAdvance(j + 1, node1, acc)

\* lines 123-131: stack the outgoing flows of node1; acc = [pos, total, y]
RECURSIVE SourceFlows(_, _, _)
SourceFlows(j, node1, acc) ==
  IF j > Len(nodes) THEN acc
  ELSE LET node2 == nodes[j]
           key == <<step1, node1, step2, node2>>
       IN IF HasEntry(flows, key)
          THEN LET size == scale_weights[flows[key]] IN
               SourceFlows(j + 1, node1,
                 [pos |-> acc.pos + size,
                  total |-> acc.total + size,
                  y |-> Put(acc.y, <<step1, node1, node2>>, FlowCentre(acc.pos, size))])
          ELSE SourceFlows(j + 1, node1, acc)

RECURSIVE DestFlowsNoAdvance(_, _, _)
DestFlowsNoAdvance(j, node2, acc) ==
  IF j > Len(nodes) THEN acc
  ELSE LET node1 == nodes[j]
           key == <<steps[pair], node1, steps[pair + 1], node2>>
       IN IF HasEntry(flows, key)
          THEN LET size == scale_weights[flows[key]] IN
               DestFlowsNoAdvance(j + 1, node2,
                 [pos |-> acc.pos,
                  total |-> acc.total + size,
                  y |-> Put(acc.y, <<steps[pair + 1], node1, node2>>,
                            acc.pos + (size \div 2))])
          ELSE DestFlowsNoAdvance(j + 1, node2, acc)

\* lines 150-158: stack the incoming flows of node2; acc = [pos, total, y]
RECURSIVE DestFlows(_, _, _)
DestFlows(j, node2, acc) ==
  IF j > Len(nodes) THEN acc
  ELSE LET node1 == nodes[j]
           key == <<step1, node1, step2, node2>>
       IN IF HasEntry(flows, key)
          THEN LET size == scale_weights[flows[key]] IN
               DestFlows(j + 1, node2,
                 [pos |-> acc.pos + size,
                  total |-> acc.total + size,
                  y |-> Put(acc.y, <<step2, node1, node2>>, FlowCentre(acc.pos, size))])
          ELSE DestFlows(j + 1, node2, acc)

\* lines 132-133 / 159-160: the stationary remainder, not clamped
StationaryAlways(p, node_size, total) == p + node_size - total
StationaryClamped(p, node_size, total) ==
  IF show_stationary_component THEN p + Max(0, node_size - total) ELSE p
Stationary(p, node_size, total) ==
  IF show_stationary_component THEN p + node_size - total ELSE p

\* lines 137-139 / 164-166: where the next node starts
NextPosNoMargin(y1, p, node) ==
  IF compact = FALSE THEN y1 + Get0(node_maxsize, node) ELSE p
NextPosNoOverride(y1, p, node) == p + node_margin
NextPos(y1, p, node) ==
  (IF compact = FALSE THEN y1 + Get0(node_maxsize, node) ELSE p) + node_margin

\* line 138 / 165 reads the defaultdict, which inserts the default
TouchMaxSize(node) ==
  IF compact = FALSE /\ node \notin DOMAIN node_maxsize
  THEN Put(node_maxsize, node, 0) ELSE node_maxsize

\* lines 117-139: one iteration of "for node1 in nodes" (source ports)
SourcePort ==
  /\ pc = "source"
  /\ k <= Len(nodes)
  /\ LET node1 == nodes[k]
         present == HasEntry(sequence, <<step1, node1>>)
         r == SourceFlows(1, node1, [pos |-> pos, total |-> 0, y |-> edge_node1_y])
         p2 == IF present
               THEN Stationary(r.pos, scale_weights[sequence[<<step1, node1>>]], r.total)
               ELSE pos
         miss == ~present \/ \E j \in 1 .. Len(nodes) :
                                ~HasEntry(flows, <<step1, node1, step2, nodes[j]>>)
     IN /\ node1_y1' = Put(node1_y1, <<step1, node1>>, pos)
        /\ edge_node1_y' = IF present THEN r.y ELSE edge_node1_y
        /\ node1_y2' = Put(node1_y2, <<step1, node1>>, p2)
        /\ pos' = NextPos(pos, p2, node1)
        /\ node_maxsize' = TouchMaxSize(node1)
        /\ pc' = IF miss THEN OnKeyError("source") ELSE "source"
  /\ k' = k + 1
  /\ UNCHANGED << inputs, earlier, steps, maxy, node2_y1, node2_y2, edge_node2_y,
                  edge_size, pair >>

\* line 140 / 167: self.maxy = max(self.maxy, pos)
UpdateMaxYLast(m, p) == p
UpdateMaxYMargin(m, p) == Max(m, p + node_margin)
UpdateMaxY(m, p) == Max(m, p)

\* lines 140-143: end of the source ports, pos reset for destination ports
SourceDone ==
  /\ pc = "source"
  /\ k > Len(nodes)
  /\ maxy' = UpdateMaxY(maxy, pos)
  /\ pos' = miny
  /\ k' = 1
  /\ pc' = "dest"
  /\ UNCHANGED << inputs, earlier, steps, node1_y1, node1_y2, node2_y1, node2_y2,
                  node_maxsize, edge_node1_y, edge_node2_y, edge_size, pair >>

\* lines 144-166: one iteration of "for node2 in nodes" (destination ports)
DestPort ==
  /\ pc = "dest"
  /\ k <= Len(nodes)
  /\ LET node2 == nodes[k]
         present == HasEntry(sequence, <<step2, node2>>)
         r == DestFlows(1, node2, [pos |-> pos, total |-> 0, y |-> edge_node2_y])
         p2 == IF present
               THEN Stationary(r.pos, scale_weights[sequence[<<step2, node2>>]], r.total)
               ELSE pos
         miss == ~present \/ \E j \in 1 .. Len(nodes) :
                                ~HasEntry(flows, <<step1, nodes[j], step2, node2>>)
     IN /\ node2_y1' = Put(node2_y1, <<step2, node2>>, pos)
        /\ edge_node2_y' = IF present THEN r.y ELSE edge_node2_y
        /\ node2_y2' = Put(node2_y2, <<step2, node2>>, p2)
        /\ pos' = NextPos(pos, p2, node2)
        /\ node_maxsize' = TouchMaxSize(node2)
        /\ pc' = IF miss THEN OnKeyError("dest") ELSE "dest"
  /\ k' = k + 1
  /\ UNCHANGED << inputs, earlier, steps, maxy, node1_y1, node1_y2, edge_node1_y,
                  edge_size, pair >>

\* line 167 and back to line 102: end of the destination ports
DestDone ==
  /\ pc = "dest"
  /\ k > Len(nodes)
  /\ maxy' = UpdateMaxY(maxy, pos)
  /\ pair' = pair + 1
  /\ pc' = "pairs"
  /\ UNCHANGED << inputs, earlier, steps, node1_y1, node1_y2, node2_y1, node2_y2,
                  node_maxsize, edge_node1_y, edge_node2_y, edge_size, pos, k >>

\* line 102: zip(steps[:-1], steps[1:]) is exhausted, __layout returns
Finish ==
  /\ pc = "pairs"
  /\ pair >= Len(steps)
  /\ pc' = "done"
  /\ UNCHANGED << inputs, earlier, steps, maxy, node1_y1, node1_y2, node2_y1, node2_y2,
                  node_maxsize, edge_node1_y, edge_node2_y, edge_size, pos,
                  pair, k >>

Next ==
  \/ Begin
  \/ MaxSizePrePass
  \/ EdgeSizes
  \/ SourcePort
  \/ SourceDone
  \/ DestPort
  \/ DestDone
  \/ Finish


Spec == Init /\ [][Next]_vars

\* A caller drops one flow entry from the data source and constructs a new
\* layout from it (lines 47-58); the heights of the finished layout are kept
\* for comparison.
RemoveFlow(key) ==
  /\ pc = "done"
  /\ earlier.removed = << >>
  /\ key \in DOMAIN flows
  /\ flows' = [x \in (DOMAIN flows) \ {key} |-> flows[x]]
  /\ earlier' = [removed |-> key,
                 size |-> scale_weights[flows[key]],
                 steps |-> steps,
                 node1_height |-> [x \in DOMAIN node1_y2 |-> node1_y2[x] - node1_y1[x]],
                 node2_height |-> [x \in DOMAIN node2_y2 |-> node2_y2[x] - node2_y1[x]]]
  /\ steps' = << >>
  /\ maxy' = 0
  /\ node1_y1' = EmptyDict /\ node1_y2' = EmptyDict
  /\ node2_y1' = EmptyDict /\ node2_y2' = EmptyDict
  /\ node_maxsize' = EmptyDict
  /\ edge_node1_y' = EmptyDict /\ edge_node2_y' = EmptyDict
  /\ edge_size' = EmptyDict
  /\ pos' = 0
  /\ pair' = 1
  /\ k' = 1
  /\ pc' = "start"
  /\ UNCHANGED << nodes, sequence, node_margin, scale_weights, compact,
                  show_stationary_component >>

NextRemove ==
  \/ Next
  \/ \E key \in FlowKeys : RemoveFlow(key)

SpecRemove == Init /\ [][NextRemove]_vars

\* the state before __layout has run: nothing laid out yet
NotLaidOut ==
  /\ steps = << >>
  /\ maxy = 0
  /\ node1_y1 = EmptyDict /\ node1_y2 = EmptyDict
  /\ node2_y1 = EmptyDict /\ node2_y2 = EmptyDict
  /\ node_maxsize = EmptyDict
  /\ edge_node1_y = EmptyDict /\ edge_node2_y = EmptyDict
  /\ edge_size = EmptyDict
  /\ pos = 0
  /\ pc = "start"
  /\ pair = 1
  /\ k = 1
  /\ earlier = NoEarlier

\* Data sources that may break the input contract: a node list naming a
\* node twice, and at most one flow entry between any two steps, adjacent
\* or not.  __init__ and __layout (lines 47-72) take them as they are.
ContractNodeLists == { <<"A", "B">>, <<"A", "A">> }
AnyFlowKeys == StepUniverse \X NodeNames \X StepUniverse \X NodeNames

InitContract ==
  /\ nodes \in ContractNodeLists
  /\ sequence = SequenceOf({}, << >>)
  /\ \E D2 \in {{}} \cup { {key} : key \in AnyFlowKeys } :
       flows \in [D2 -> Sizes]
  /\ node_margin \in Margins
  /\ scale_weights \in ScaleFunctions
  /\ compact \in BOOLEAN
  /\ show_stationary_component \in BOOLEAN
  /\ NotLaidOut

SpecContract == InitContract /\ [][Next]_vars

\* Data sources around the degenerate ones: a node list of 0, 1 or 2 nodes,
\* a sequence holding every node at the steps of any subset of the steps
\* (none, one, two or three steps), and at most one flow entry.
DegenerateNodeLists == { << >>, <<"A">>, <<"A", "B">> }

InitDegenerate ==
  /\ nodes \in DegenerateNodeLists
  /\ \E S \in SUBSET StepUniverse :
       sequence = [key \in S \X NodeNames |-> 4]
  /\ \E D2 \in {{}} \cup { {key} : key \in FlowKeys } :
       flows \in [D2 -> Sizes]
  /\ node_margin \in Margins
  /\ scale_weights \in ScaleFunctions
  /\ compact \in BOOLEAN
  /\ show_stationary_component \in BOOLEAN
  /\ NotLaidOut

SpecDegenerate == InitDegenerate /\ [][Next]_vars

\* The data source of examples/ex1_simple.py.  Lengths are counted in
\* halves of the example's units (Unit of them make one), so that size/2.0
\* is exact for the odd sizes 5 and 3.
Unit == 2
ExampleNodes == <<"A", "B", "C">>
ExampleSequence ==
  [key \in {1, 2, 3} \X {"A", "B", "C"} |->
     Unit * ( CASE key = <<1, "A">> -> 10 [] key = <<1, "B">> -> 10 [] key = <<1, "C">> -> 10
                [] key = <<2, "A">> -> 5  [] key = <<2, "B">> -> 20 [] key = <<2, "C">> -> 5
                [] key = <<3, "A">> -> 8  [] key = <<3, "B">> -> 20 [] key = <<3, "C">> -> 2 )]
ExampleFlows ==
  [key \in { <<1, "A", 2, "A">>, <<1, "A", 2, "B">>, <<1, "B", 2, "B">>,
             <<1, "C", 2, "C">>, <<1, "C", 2, "B">>, <<2, "A", 3, "A">>,
             <<2, "B", 3, "B">>, <<2, "C", 3, "C">>, <<2, "C", 3, "A">> } |->
     Unit * ( CASE key = <<1, "A", 2, "A">> -> 5  [] key = <<1, "A", 2, "B">> -> 5
                [] key = <<1, "B", 2, "B">> -> 10 [] key = <<1, "C", 2, "C">> -> 5
                [] key = <<1, "C", 2, "B">> -> 5  [] key = <<2, "A", 3, "A">> -> 5
                [] key = <<2, "B", 3, "B">> -> 20 [] key = <<2, "C", 3, "C">> -> 2
                [] key = <<2, "C", 3, "A">> -> 3 )]

\* node_margin=50 (line 48) and scale_weights=lambda n: n (line 49)
ExampleMargin == 50 * Unit
ExampleScale == [n \in 0 .. (20 * Unit) |-> n]

\* the example as it is, or with one of its flow entries left out, under
\* each setting of compact and show_stationary_component
InitExample ==
  /\ nodes = ExampleNodes
  /\ sequence = ExampleSequence
  /\ \E D \in {{}} \cup { {key} : key \in DOMAIN ExampleFlows } :
       flows = [key \in (DOMAIN ExampleFlows) \ D |-> ExampleFlows[key]]
  /\ node_margin = ExampleMargin
  /\ scale_weights = ExampleScale
  /\ compact \in BOOLEAN
  /\ show_stationary_component \in BOOLEAN
  /\ NotLaidOut

SpecExample == InitExample /\ [][Next]_vars

\* the number of places in which a data source differs from the full table
EditCount(seq, fl) ==
  Cardinality(SeqKeys \ DOMAIN seq)
    + Cardinality({ x \in DOMAIN seq : seq[x] # 4 })
    + Cardinality(DOMAIN fl)

\* A caller drops one sequence entry from the data source and constructs a
\* new layout from it (lines 47-58); the steps and heights of the finished
\* layout are kept for comparison.  The reduced data source stays within
\* the data sources explored.
RemoveSequenceEntry(key) ==
  /\ pc = "done"
  /\ earlier.removed = << >>
  /\ key \in DOMAIN sequence
  /\ EditCount([x \in (DOMAIN sequence) \ {key} |-> sequence[x]], flows) <= MaxEdits
  /\ sequence' = [x \in (DOMAIN sequence) \ {key} |-> sequence[x]]
  /\ earlier' = [removed |-> key,
                 size |-> scale_weights[sequence[key]],
                 steps |-> steps,
                 node1_height |-> [x \in DOMAIN node1_y2 |-> node1_y2[x] - node1_y1[x]],
                 node2_height |-> [x \in DOMAIN node2_y2 |-> node2_y2[x] - node2_y1[x]]]
  /\ steps' = << >>
  /\ maxy' = 0
  /\ node1_y1' = EmptyDict /\ node1_y2' = EmptyDict
  /\ node2_y1' = EmptyDict /\ node2_y2' = EmptyDict
  /\ node_maxsize' = EmptyDict
  /\ edge_node1_y' = EmptyDict /\ edge_node2_y' = EmptyDict
  /\ edge_size' = EmptyDict
  /\ pos' = 0
  /\ pair' = 1
  /\ k' = 1
  /\ pc' = "start"
  /\ UNCHANGED << nodes, flows, node_margin, scale_weights, compact,
                  show_stationary_component >>

NextRemoveEntry ==
  \/ Next
  \/ \E key \in SeqKeys : RemoveSequenceEntry(key)

SpecRemoveEntry == Init /\ [][NextRemoveEntry]_vars

\* ================================================================ claims
NodeSet == { nodes[i] : i \in 1 .. Len(nodes) }
NodeIndex(n) == CHOOSE i \in 1 .. Len(nodes) : nodes[i] = n
StepIndex(s) == CHOOSE i \in 1 .. Len(steps) : steps[i] = s
HasFollowing(s) == \E i \in 1 .. Len(steps) - 1 : steps[i] = s
HasPreceding(s) == \E i \in 2 .. Len(steps) : steps[i] = s
StepFollowing(s) == steps[StepIndex(s) + 1]
StepPreceding(s) == steps[StepIndex(s) - 1]

\* the flow entries leaving (s, n) towards the next step, entering (s, n)
\* from the previous step
OutKeys(s, n) ==
  IF HasFollowing(s)
  THEN LET t == StepFollowing(s)
       IN { key \in DOMAIN flows : key[1] = s /\ key[2] = n /\ key[3] = t
                                    /\ key[4] \in NodeSet }
  ELSE {}
InKeys(s, n) ==
  IF HasPreceding(s)
  THEN LET r == StepPreceding(s)
       IN { key \in DOMAIN flows : key[1] = r /\ key[3] = s /\ key[4] = n
                                    /\ key[2] \in NodeSet }
  ELSE {}

RECURSIVE ScaledFlowSum(_)
ScaledFlowSum(K) ==
  IF K = {} THEN 0
  ELSE LET x == CHOOSE x \in K : TRUE
       IN scale_weights[flows[x]] + ScaledFlowSum(K \ {x})

ScaledSize(key) == scale_weights[sequence[key]]
HeightOut(key) == node1_y2[key] - node1_y1[key]
HeightIn(key) == node2_y2[key] - node2_y1[key]

\* C1: with show_stationary_component, the outgoing port of every node that
\* has a sequence entry is exactly as high as the node's scaled size, in
\* compact and non-compact mode, however many flows leave it and also when
\* they sum to more than the size.
C1_MassConservationStationary ==
  show_stationary_component =>
    \A key \in DOMAIN node1_y2 :
      HasEntry(sequence, key) => HeightOut(key) = ScaledSize(key)

\* C1 witness: non-compact mode, a laid-out node with two outgoing flows
\* that exceed its size
C1_Witness ==
  /\ show_stationary_component
  /\ ~compact
  /\ \E key \in DOMAIN node1_y2 :
       /\ HasEntry(sequence, key)
       /\ Cardinality(OutKeys(key[1], key[2])) = 2
       /\ ScaledFlowSum(OutKeys(key[1], key[2])) > ScaledSize(key)
       /\ HeightOut(key) = ScaledSize(key)

\* C2: without show_stationary_component, the outgoing port of every node
\* that has a sequence entry is as high as the sum of the scaled sizes of
\* its outgoing flows; the node's own size does not contribute.
C2_MassConservationFlowsOnly ==
  ~show_stationary_component =>
    \A key \in DOMAIN node1_y2 :
      HasEntry(sequence, key) =>
        HeightOut(key) = ScaledFlowSum(OutKeys(key[1], key[2]))

\* C2 witness: a laid-out node whose flows sum to less than its size
C2_Witness ==
  /\ ~show_stationary_component
  /\ \E key \in DOMAIN node1_y2 :
       /\ HasEntry(sequence, key)
       /\ OutKeys(key[1], key[2]) # {}
       /\ ScaledFlowSum(OutKeys(key[1], key[2])) < ScaledSize(key)
       /\ HeightOut(key) = ScaledFlowSum(OutKeys(key[1], key[2]))

\* the flows of node1 towards the nodes that precede node2 in the node order
OutKeysBefore(s, n1, n2) ==
  { key \in OutKeys(s, n1) : NodeIndex(key[4]) < NodeIndex(n2) }

\* C3: the bands of an outgoing port are stacked contiguously in node order
\* from the top of the port: the band of the flow node1 -> node2 starts at
\* y1_out plus the scaled sizes of the flows of node1 to earlier nodes.
C3_OutgoingBandsContiguous ==
  \A key \in DOMAIN node1_y2 :
    HasEntry(sequence, key) =>
      \A f \in OutKeys(key[1], key[2]) :
        LET e == <<key[1], key[2], f[4]>> IN
        /\ e \in DOMAIN edge_node1_y
        /\ edge_node1_y[e] - (scale_weights[flows[f]] \div 2)
             = node1_y1[key] + ScaledFlowSum(OutKeysBefore(key[1], key[2], f[4]))

\* C3 witness: the second band of a port that does not start at 0
C3_Witness ==
  \E key \in DOMAIN node1_y2 :
    /\ HasEntry(sequence, key)
    /\ node1_y1[key] > 0
    /\ \E f \in OutKeys(key[1], key[2]) :
         /\ OutKeysBefore(key[1], key[2], f[4]) # {}
         /\ <<key[1], key[2], f[4]>> \in DOMAIN edge_node1_y

RECURSIVE RawFlowSum(_)
RawFlowSum(K) ==
  IF K = {} THEN 0
  ELSE LET x == CHOOSE x \in K : TRUE IN flows[x] + RawFlowSum(K \ {x})

\* the input condition of C4: identity scaling, no negative size or margin,
\* and no present node with more flow leaving or entering than its size
FlowsFit ==
  /\ scale_weights = ScaleIdentity
  /\ node_margin >= 0
  /\ \A key \in DOMAIN sequence : sequence[key] >= 0
  /\ \A key \in DOMAIN flows : flows[key] >= 0
  /\ \A key \in DOMAIN sequence :
       /\ RawFlowSum(OutKeys(key[1], key[2])) <= sequence[key]
       /\ RawFlowSum(InKeys(key[1], key[2])) <= sequence[key]

\* the band of a recorded centre: <<top, bottom>>
BandOut(e) == << edge_node1_y[e] - (edge_size[e] \div 2),
                 edge_node1_y[e] + (edge_size[e] \div 2) >>
BandIn(e) ==
  LET size == edge_size[<<StepPreceding(e[1]), e[2], e[3]>>]
  IN << edge_node2_y[e] - (size \div 2), edge_node2_y[e] + (size \div 2) >>

Disjoint(b1, b2) == b1[2] <= b2[1] \/ b2[2] <= b1[1]

C4_PortsApart ==
  /\ \A ka, kb \in DOMAIN node1_y2 :
       (ka[1] = kb[1] /\ NodeIndex(ka[2]) < NodeIndex(kb[2]))
         => node1_y2[ka] + node_margin <= node1_y1[kb]
  /\ \A ka, kb \in DOMAIN node2_y2 :
       (ka[1] = kb[1] /\ NodeIndex(ka[2]) < NodeIndex(kb[2]))
         => node2_y2[ka] + node_margin <= node2_y1[kb]

C4_BandsInside ==
  /\ \A e \in DOMAIN edge_node1_y :
       /\ node1_y1[<<e[1], e[2]>>] <= BandOut(e)[1]
       /\ BandOut(e)[2] <= node1_y2[<<e[1], e[2]>>]
       /\ \A f \in DOMAIN edge_node1_y :
            (f # e /\ f[1] = e[1] /\ f[2] = e[2]) => Disjoint(BandOut(e), BandOut(f))
  /\ \A e \in DOMAIN edge_node2_y :
       /\ node2_y1[<<e[1], e[3]>>] <= BandIn(e)[1]
       /\ BandIn(e)[2] <= node2_y2[<<e[1], e[3]>>]
       /\ \A f \in DOMAIN edge_node2_y :
            (f # e /\ f[1] = e[1] /\ f[3] = e[3]) => Disjoint(BandIn(e), BandIn(f))

\* C4: when the sizes and the margin are not negative, scale_weights is the
\* identity and no present node has more flow leaving or entering than its
\* size, then (a) on each side of each step a node ends at least node_margin
\* above the start of every later node, and (b) every band lies inside the
\* port of its node and no two bands of one port overlap.
C4_NoOverlap == FlowsFit => (C4_PortsApart /\ C4_BandsInside)

\* C4 witness: a finished layout of fitting data with two bands in the
\* outgoing port of the second node, each with its incoming end recorded
C4_Witness ==
  /\ pc = "done"
  /\ FlowsFit
  /\ \E e, f \in DOMAIN edge_node1_y :
       /\ f # e /\ f[1] = e[1] /\ f[2] = e[2] /\ e[2] = nodes[2]
       /\ <<StepFollowing(e[1]), e[2], e[3]>> \in DOMAIN edge_node2_y
       /\ <<StepFollowing(f[1]), f[2], f[3]>> \in DOMAIN edge_node2_y

\* consecutive nodes a = nodes[i], b = nodes[i + 1] on both sides
ConsecutiveOut == { <<s, i>> \in StepUniverse \X (1 .. Len(nodes) - 1) :
                      <<s, nodes[i + 1]>> \in DOMAIN node1_y1 }
ConsecutiveIn == { <<s, i>> \in StepUniverse \X (1 .. Len(nodes) - 1) :
                     <<s, nodes[i + 1]>> \in DOMAIN node2_y1 }

\* C5: in compact mode, on both sides, the first node starts at miny and
\* every next node starts node_margin below the end of the previous one,
\* also when the previous one has no sequence entry (and so no height).
C5_CompactPacking ==
  compact =>
    /\ \A key \in DOMAIN node1_y1 : key[2] = nodes[1] => node1_y1[key] = miny
    /\ \A key \in DOMAIN node2_y1 : key[2] = nodes[1] => node2_y1[key] = miny
    /\ \A c \in ConsecutiveOut :
         LET a == <<c[1], nodes[c[2]]>>
             b == <<c[1], nodes[c[2] + 1]>>
         IN /\ node1_y1[b] = node1_y2[a] + node_margin
            /\ ~HasEntry(sequence, a) => node1_y1[b] = node1_y1[a] + node_margin
    /\ \A c \in ConsecutiveIn :
         LET a == <<c[1], nodes[c[2]]>>
             b == <<c[1], nodes[c[2] + 1]>>
         IN /\ node2_y1[b] = node2_y2[a] + node_margin
            /\ ~HasEntry(sequence, a) => node2_y1[b] = node2_y1[a] + node_margin

\* C5 witness: compact layout, finished, with a first node that is absent at
\* one step and has a height at another
C5_Witness ==
  /\ compact
  /\ pc = "done"
  /\ \E c \in ConsecutiveOut : ~HasEntry(sequence, <<c[1], nodes[c[2]]>>)
  /\ \E c \in ConsecutiveOut : HeightOut(<<c[1], nodes[c[2]]>>) > 0
  /\ \E c \in ConsecutiveIn : HeightIn(<<c[1], nodes[c[2]]>>) > 0

\* the maximum of the scaled sizes of node n over the steps, 0 if none
ScaledSizesOf(n) == { scale_weights[sequence[key]] :
                        key \in { x \in DOMAIN sequence : x[2] = n } }
MaxScaled(n) ==
  IF ScaledSizesOf(n) = {} THEN 0
  ELSE CHOOSE m \in ScaledSizesOf(n) : \A x \in ScaledSizesOf(n) : x <= m

\* C6: in non-compact mode every next node starts max_size + node_margin
\* below the start of the previous one on both sides, so the start of a
\* node's port is the same at every step.
C6_FixedFootprint ==
  ~compact =>
    /\ \A c \in ConsecutiveOut :
         node1_y1[<<c[1], nodes[c[2] + 1]>>]
           = node1_y1[<<c[1], nodes[c[2]]>>] + MaxScaled(nodes[c[2]]) + node_margin
    /\ \A c \in ConsecutiveIn :
         node2_y1[<<c[1], nodes[c[2] + 1]>>]
           = node2_y1[<<c[1], nodes[c[2]]>>] + MaxScaled(nodes[c[2]]) + node_margin
    /\ \A ka, kb \in DOMAIN node1_y1 : ka[2] = kb[2] => node1_y1[ka] = node1_y1[kb]
    /\ \A ka, kb \in DOMAIN node2_y1 : ka[2] = kb[2] => node2_y1[ka] = node2_y1[kb]

\* C6 witness: non-compact layout, finished, where the first node is smaller
\* than its maximum at one step and has different outgoing flows at two steps
C6_Witness ==
  /\ ~compact
  /\ pc = "done"
  /\ Len(steps) = 3
  /\ \E c \in ConsecutiveOut :
       /\ HasEntry(sequence, <<c[1], nodes[c[2]]>>)
       /\ ScaledSize(<<c[1], nodes[c[2]]>>) < MaxScaled(nodes[c[2]])
  /\ \E ka, kb \in DOMAIN node1_y2 :
       /\ ka[2] = nodes[1] /\ kb[2] = nodes[1]
       /\ HeightOut(ka) # HeightOut(kb)

\* C7 as stated: in non-compact mode no outgoing port is higher than the
\* node's max_size, and a node is as high as max_size only at a step where
\* its scaled size is its maximum over the steps.
C7_Original ==
  ~compact =>
    \A key \in DOMAIN node1_y2 :
      /\ HeightOut(key) <= Get0(node_maxsize, key[2])
      /\ (HasEntry(sequence, key) /\ HeightOut(key) = Get0(node_maxsize, key[2]))
           => ScaledSize(key) = MaxScaled(key[2])

\* C7, amended: the same for the nodes that show their stationary component,
\* have no sequence entry at the step, or have outgoing flows that sum to at
\* most their scaled size.
C7_NonCompactHeight ==
  ~compact =>
    \A key \in DOMAIN node1_y2 :
      (\/ show_stationary_component
       \/ ~HasEntry(sequence, key)
       \/ ScaledFlowSum(OutKeys(key[1], key[2])) <= ScaledSize(key))
      => /\ HeightOut(key) <= Get0(node_maxsize, key[2])
         /\ (HasEntry(sequence, key) /\ HeightOut(key) = Get0(node_maxsize, key[2]))
              => ScaledSize(key) = MaxScaled(key[2])

\* C7 witness: non-compact layout without stationary component in which a
\* node with an outgoing flow is lower than max_size at one step and exactly
\* max_size at another
C7_Witness ==
  /\ ~compact
  /\ ~show_stationary_component
  /\ pc = "done"
  /\ \E ka, kb \in DOMAIN node1_y2 :
       /\ ka[2] = kb[2]
       /\ HasEntry(sequence, ka) /\ HasEntry(sequence, kb)
       /\ OutKeys(ka[1], ka[2]) # {}
       /\ ScaledFlowSum(OutKeys(ka[1], ka[2])) <= ScaledSize(ka)
       /\ HeightOut(ka) < Get0(node_maxsize, ka[2])
       /\ HeightOut(kb) = Get0(node_maxsize, kb[2])
       /\ HeightOut(kb) > 0

\* the pos reached right after each recorded band
BandEnds ==
  { BandOut(e)[2] : e \in DOMAIN edge_node1_y } \cup
  { BandIn(e)[2] : e \in DOMAIN edge_node2_y }
PortEnds ==
  { node1_y2[key] : key \in DOMAIN node1_y2 } \cup
  { node2_y2[key] : key \in DOMAIN node2_y2 }

\* C8 as stated: the final max_y is at least every pos the passes reached,
\* in particular every y2_out, every y2_in and the end of every band.
C8_Original ==
  pc = "done" => \A y \in PortEnds \cup BandEnds : maxy >= y

\* pos at the end of the outgoing pass of step s and of the incoming pass
LastNode == nodes[Len(nodes)]
PassEndOut(s) ==
  IF nodes = << >> THEN miny
  ELSE (IF compact THEN node1_y2[<<s, LastNode>>]
        ELSE node1_y1[<<s, LastNode>>] + MaxScaled(LastNode)) + node_margin
PassEndIn(s) ==
  IF nodes = << >> THEN miny
  ELSE (IF compact THEN node2_y2[<<s, LastNode>>]
        ELSE node2_y1[<<s, LastNode>>] + MaxScaled(LastNode)) + node_margin
PassEnds ==
  { PassEndOut(steps[i]) : i \in 1 .. Len(steps) - 1 } \cup
  { PassEndIn(steps[i]) : i \in 2 .. Len(steps) }

\* no node with a sequence entry has more scaled flow than scaled size
ScaledFlowsFit ==
  \A key \in DOMAIN sequence :
    /\ ScaledFlowSum(OutKeys(key[1], key[2])) <= ScaledSize(key)
    /\ ScaledFlowSum(InKeys(key[1], key[2])) <= ScaledSize(key)

\* C8, amended: the final max_y is the largest pos with which a pass ended
\* (0 if no pass ran); it is at least every y2 and every band end when no
\* node has more flow than size.
C8_MaxY ==
  pc = "done" =>
    /\ \A y \in PassEnds : maxy >= y
    /\ maxy \in PassEnds \cup {0}
    /\ ScaledFlowsFit => \A y \in PortEnds \cup BandEnds : maxy >= y

\* C8 witness: a finished layout with flows in which an earlier pass ended
\* higher than the last one
C8_Witness ==
  /\ pc = "done"
  /\ Len(steps) = 3
  /\ DOMAIN edge_node2_y # {}
  /\ ScaledFlowsFit
  /\ maxy > PassEndIn(steps[3])

\* every action up to the end of __layout
LayoutCompletes == pc = "done" \/ ENABLED Next

\* C9: missing entries are no error: __layout never raises and runs to its
\* end, and a node without sequence entry gets a port of height 0 on both
\* sides, also when flow entries leave or enter it.
C9_MissingEntries ==
  /\ pc # "raised"
  /\ LayoutCompletes
  /\ \A key \in DOMAIN node1_y2 :
       ~HasEntry(sequence, key) => node1_y1[key] = node1_y2[key]
  /\ \A key \in DOMAIN node2_y2 :
       ~HasEntry(sequence, key) => node2_y1[key] = node2_y2[key]

\* C9 witness: a finished layout with a node that has no sequence entry at
\* a step but a flow entry leaving it there
C9_Witness ==
  /\ pc = "done"
  /\ \E key \in DOMAIN node1_y2 :
       /\ ~HasEntry(sequence, key)
       /\ OutKeys(key[1], key[2]) # {}
       /\ node1_y1[key] = node1_y2[key]

\* the ports of the removed flow entry
RemovedOut == << earlier.removed[1], earlier.removed[2] >>
RemovedIn == << earlier.removed[3], earlier.removed[4] >>
Relaid == pc = "done" /\ earlier.removed # << >>

\* C10 as stated: after a flow entry is removed, the new layout has the
\* outgoing port of (step1, node1) and the incoming port of (step2, node2)
\* lower by the scaled size of the flow, for both settings of
\* show_stationary_component.
C10_Original ==
  Relaid =>
    /\ RemovedOut \in DOMAIN node1_y2
         => HeightOut(RemovedOut) = earlier.node1_height[RemovedOut] - earlier.size
    /\ RemovedIn \in DOMAIN node2_y2
         => HeightIn(RemovedIn) = earlier.node2_height[RemovedIn] - earlier.size

\* what the removed flow contributed to the height of a port
Contribution(key) ==
  IF /\ ~show_stationary_component
     /\ HasEntry(sequence, key)
     /\ HasFollowing(earlier.removed[1])
     /\ StepFollowing(earlier.removed[1]) = earlier.removed[3]
  THEN earlier.size ELSE 0

\* C10, amended: removing a flow entry never raises; without stationary
\* component the port of a node that has a sequence entry gets lower by the
\* scaled size of the flow, in every other case the port keeps its height.
C10_RemoveFlow ==
  /\ pc # "raised"
  /\ Relaid =>
       /\ RemovedOut \in DOMAIN node1_y2
            => HeightOut(RemovedOut)
                 = earlier.node1_height[RemovedOut] - Contribution(RemovedOut)
       /\ RemovedIn \in DOMAIN node2_y2
            => HeightIn(RemovedIn)
                 = earlier.node2_height[RemovedIn] - Contribution(RemovedIn)

\* C10 witness: a second layout, without stationary component, after a flow
\* between two present nodes was removed; both ports got lower
C10_Witness ==
  /\ Relaid
  /\ ~show_stationary_component
  /\ HasEntry(sequence, RemovedOut) /\ HasEntry(sequence, RemovedIn)
  /\ RemovedOut \in DOMAIN node1_y2 /\ RemovedIn \in DOMAIN node2_y2
  /\ earlier.size > 0
  /\ HeightOut(RemovedOut) < earlier.node1_height[RemovedOut]
  /\ HeightIn(RemovedIn) < earlier.node2_height[RemovedIn]

\* the heights of all ports but those of the removed (step, node) are the
\* heights of the earlier layout, and the same ports are laid out
OtherHeightsKept ==
  /\ DOMAIN node1_y2 = DOMAIN earlier.node1_height
  /\ DOMAIN node2_y2 = DOMAIN earlier.node2_height
  /\ \A key \in DOMAIN node1_y2 :
       key # earlier.removed => HeightOut(key) = earlier.node1_height[key]
  /\ \A key \in DOMAIN node2_y2 :
       key # earlier.removed => HeightIn(key) = earlier.node2_height[key]

RemovedPortsFlat ==
  /\ earlier.removed \in DOMAIN node1_y2 => HeightOut(earlier.removed) = 0
  /\ earlier.removed \in DOMAIN node2_y2 => HeightIn(earlier.removed) = 0

\* C11 as stated: after a sequence entry is removed, the ports of that
\* (step, node) have height 0, every other port keeps its height, and the
\* steps laid out are the same, also when the step has no entry left.
C11_Original ==
  Relaid => (RemovedPortsFlat /\ steps = earlier.steps /\ OtherHeightsKept)

StepStillPresent == \E key \in DOMAIN sequence : key[1] = earlier.removed[1]

\* C11, amended: the same provided the step keeps another sequence entry;
\* otherwise the step drops out of the steps laid out and has no port.
C11_RemoveSequenceEntry ==
  Relaid =>
    /\ RemovedPortsFlat
    /\ StepStillPresent => (steps = earlier.steps /\ OtherHeightsKept)
    /\ ~StepStillPresent =>
         /\ steps = SelectSeq(earlier.steps, LAMBDA s : s # earlier.removed[1])
         /\ \A key \in (DOMAIN node1_y2) \cup (DOMAIN node2_y2) :
              key[1] # earlier.removed[1]

\* C11 witness: a second layout after the entry of a node with an outgoing
\* flow was removed: its port lost its height, another port kept a height
C11_Witness ==
  /\ Relaid
  /\ StepStillPresent
  /\ earlier.removed \in DOMAIN node1_y2
  /\ OutKeys(earlier.removed[1], earlier.removed[2]) # {}
  /\ earlier.node1_height[earlier.removed] > 0
  /\ HeightOut(earlier.removed) = 0
  /\ \E key \in DOMAIN node1_y2 : key # earlier.removed /\ HeightOut(key) > 0

DuplicateNodeNames ==
  \E i \in 1..Len(nodes), j \in 1..Len(nodes) : i # j /\ nodes[i] = nodes[j]

\* a flow entry whose (step1, step2) is not a pair of consecutive steps of
\* the sequence
NonAdjacentFlow ==
  LET st == IndexLevel0(sequence) IN
  \E key \in DOMAIN flows :
    ~ \E i \in 1..(Len(st) - 1) : st[i] = key[1] /\ st[i + 1] = key[3]

ContractViolated == DuplicateNodeNames \/ NonAdjacentFlow

NothingRecorded ==
  /\ DOMAIN node1_y1 = {} /\ DOMAIN node1_y2 = {}
  /\ DOMAIN node2_y1 = {} /\ DOMAIN node2_y2 = {}
  /\ DOMAIN edge_node1_y = {} /\ DOMAIN edge_node2_y = {}
  /\ DOMAIN edge_size = {}

\* C12: a data source with a duplicate node name or with a flow entry of a
\* non-adjacent step pair is rejected at construction: the layout pass never
\* completes and no geometry is recorded.
C12_ConfigurationError ==
  ContractViolated => (pc # "done" /\ NothingRecorded)

\* what the code does instead: a duplicate name is laid out twice (the later
\* port overwrites the earlier), a non-adjacent flow is never looked up
C12_LaidOutAnyway ==
  (ContractViolated /\ pc = "done") =>
    /\ \A s \in 1..(Len(steps) - 1), i \in 1..Len(nodes) :
         <<steps[s], nodes[i]>> \in DOMAIN node1_y1
    /\ \A key \in DOMAIN flows :
         <<key[1], key[2], key[4]>> \in DOMAIN edge_size
           => (~NonAdjacentFlow /\ edge_size[<<key[1], key[2], key[4]>>] = scale_weights[flows[key]])

C12_Witness ==
  /\ pc = "done"
  /\ DuplicateNodeNames
  /\ NonAdjacentFlow
  /\ maxy > 0

NoNodes == Len(nodes) = 0
OneStep == Cardinality({ key[1] : key \in DOMAIN sequence }) = 1

\* C13: with an empty node list (any number of steps) or a sequence of
\* exactly one step, the layout pass completes without failure, records no
\* port extent and no flow centre or size, and max_y = min_y = 0.
C13_Degenerate ==
  (NoNodes \/ OneStep) =>
    /\ LayoutCompletes
    /\ pc # "raised"
    /\ NothingRecorded
    /\ maxy = 0
    /\ miny = 0

\* C13 witness: a finished layout of no nodes over three steps with a flow
C13_Witness ==
  /\ pc = "done"
  /\ NoNodes
  /\ Len(steps) = 3
  /\ DOMAIN flows # {}

\* the other degenerate case: a finished layout of two nodes over one step
C13_WitnessOneStep ==
  /\ pc = "done"
  /\ OneStep
  /\ Len(steps) = 1
  /\ Len(nodes) = 2

ExampleCase ==
  /\ nodes = ExampleNodes /\ sequence = ExampleSequence /\ flows = ExampleFlows
  /\ node_margin = ExampleMargin /\ scale_weights = ExampleScale
  /\ compact = TRUE /\ show_stationary_component = TRUE

\* the outgoing port of node n at step 1, once recorded, is [lo, hi]
ExamplePort(n, lo, hi) ==
  <<1, n>> \in DOMAIN node1_y2 =>
    (node1_y1[<<1, n>>] = lo * Unit /\ node1_y2[<<1, n>>] = hi * Unit)

\* C14: for the data of ex1_simple.py with node_margin 50, compact layout,
\* stationary remainder shown and the identity scale, the outgoing ports at
\* step 1 are A [0,10], B [60,70], C [120,130], pos after the outgoing pass
\* of step 1 is 180, the incoming port of B at step 2 has height 20, and the
\* final max_y is 180.
C14_Example ==
  ExampleCase =>
    /\ ExamplePort("A", 0, 10)
    /\ ExamplePort("B", 60, 70)
    /\ ExamplePort("C", 120, 130)
    /\ (pc = "source" /\ pair = 1 /\ k > Len(nodes)) => pos = 180 * Unit
    /\ <<2, "B">> \in DOMAIN node2_y2 => HeightIn(<<2, "B">>) = 20 * Unit
    /\ pc = "done" =>
         /\ { <<1, "A">>, <<1, "B">>, <<1, "C">> } \subseteq DOMAIN node1_y2
         /\ <<2, "B">> \in DOMAIN node2_y2
         /\ maxy = 180 * Unit

\* C14 witness: the layout of the example is finished
C14_Witness ==
  /\ ExampleCase
  /\ pc = "done"
  /\ Len(steps) = 3
  /\ maxy > 0

\* the incoming flows of node n at step s that come from nodes before n1
InKeysBefore(s, n, n1) ==
  { key \in InKeys(s, n) : NodeIndex(key[2]) < NodeIndex(n1) }

\* C15: the incoming port of every node that has a sequence entry at step2
\* is as high as the node's scaled size (show_stationary_component) or as
\* the sum of the scaled sizes of its incoming flows (otherwise), and the
\* incoming flows are stacked without gap from the top of the port in the
\* node order of their source node.
C15_IncomingMirrorsOutgoing ==
  \A key \in DOMAIN node2_y2 :
    HasEntry(sequence, key) =>
      /\ show_stationary_component => HeightIn(key) = ScaledSize(key)
      /\ ~show_stationary_component
           => HeightIn(key) = ScaledFlowSum(InKeys(key[1], key[2]))
      /\ \A f \in InKeys(key[1], key[2]) :
           LET e == <<key[1], f[2], key[2]>> IN
           /\ e \in DOMAIN edge_node2_y
           /\ edge_node2_y[e] - (scale_weights[flows[f]] \div 2)
                = node2_y1[key] + ScaledFlowSum(InKeysBefore(key[1], key[2], f[2]))

\* C15 witness: an incoming port below the top with two incoming flows, the
\* second stacked on the first
C15_Witness ==
  \E key \in DOMAIN node2_y2 :
    /\ HasEntry(sequence, key)
    /\ node2_y1[key] > 0
    /\ Cardinality(InKeys(key[1], key[2])) = 2
    /\ \E f \in InKeys(key[1], key[2]) :
         /\ InKeysBefore(key[1], key[2], f[2]) # {}
         /\ <<key[1], f[2], key[2]>> \in DOMAIN edge_node2_y

\* the (step, node) pairs of the steps that have a step before and after
IntermediateKeys ==
  { <<steps[i], nodes[j]>> : i \in 2 .. (Len(steps) - 1), j \in 1 .. Len(nodes) }

\* C16: with show_stationary_component, at every intermediate step the
\* incoming and the outgoing port of every node, with or without a sequence
\* entry, have the same y1 and the same y2, in compact and non-compact mode.
C16_PortsAligned ==
  show_stationary_component =>
    /\ \A key \in (DOMAIN node1_y2) \cap (DOMAIN node2_y2) :
         /\ node2_y1[key] = node1_y1[key]
         /\ node2_y2[key] = node1_y2[key]
    /\ pc = "done" =>
         IntermediateKeys \subseteq (DOMAIN node1_y2) \cap (DOMAIN node2_y2)

\* C16 witness: a finished non-compact layout of three steps in which the
\* second node of the middle step receives and sends different amounts
C16_Witness ==
  /\ show_stationary_component
  /\ ~compact
  /\ pc = "done"
  /\ Len(steps) = 3
  /\ \E key \in IntermediateKeys :
       /\ HasEntry(sequence, key)
       /\ node1_y1[key] > 0
       /\ ScaledFlowSum(InKeys(key[1], key[2])) # ScaledFlowSum(OutKeys(key[1], key[2]))
       /\ node2_y2[key] = node1_y2[key]

\* C16 witness for a node without a sequence entry at the middle step
C16_WitnessAbsent ==
  /\ show_stationary_component
  /\ pc = "done"
  /\ Len(steps) = 3
  /\ \E key \in IntermediateKeys :
       /\ ~HasEntry(sequence, key)
       /\ node1_y1[key] > 0
       /\ node2_y1[key] = node1_y1[key]

\* the flow keys the layout pass looks up: consecutive steps, listed nodes
LookedUp ==
  { <<steps[i], nodes[a], steps[i + 1], nodes[b]>> :
      i \in 1 .. (Len(steps) - 1), a \in 1 .. Len(nodes), b \in 1 .. Len(nodes) }

\* C17: after the layout pass, for every pair of consecutive steps and every
\* two nodes, a size is recorded exactly when the flow entry exists, an
\* outgoing centre exactly when it exists and node1 has a sequence entry at
\* step1, an incoming centre exactly when it exists and node2 has a sequence
\* entry at step2; nothing else is recorded, and the port of a node without
\* a sequence entry has height 0 whatever its flows are.
C17_RecordedFlowOutputs ==
  pc = "done" =>
    /\ DOMAIN edge_size =
         { <<f[1], f[2], f[4]>> : f \in LookedUp \cap DOMAIN flows }
    /\ DOMAIN edge_node1_y =
         { <<f[1], f[2], f[4]>> :
             f \in { g \in LookedUp \cap DOMAIN flows : HasEntry(sequence, <<g[1], g[2]>>) } }
    /\ DOMAIN edge_node2_y =
         { <<f[3], f[2], f[4]>> :
             f \in { g \in LookedUp \cap DOMAIN flows : HasEntry(sequence, <<g[3], g[4]>>) } }
    /\ \A f \in LookedUp \cap DOMAIN flows :
         edge_size[<<f[1], f[2], f[4]>>] = scale_weights[flows[f]]
    /\ \A key \in DOMAIN node1_y2 : ~HasEntry(sequence, key) => HeightOut(key) = 0
    /\ \A key \in DOMAIN node2_y2 : ~HasEntry(sequence, key) => HeightIn(key) = 0

\* C17 witness: a flow from a node without a sequence entry: its size and
\* its incoming centre are recorded, its outgoing centre is not, and the
\* outgoing port of its source has height 0
C17_Witness ==
  /\ pc = "done"
  /\ \E f \in LookedUp \cap DOMAIN flows :
       /\ ~HasEntry(sequence, <<f[1], f[2]>>)
       /\ <<f[1], f[2], f[4]>> \in DOMAIN edge_size
       /\ <<f[1], f[2], f[4]>> \notin DOMAIN edge_node1_y
       /\ <<f[3], f[2], f[4]>> \in DOMAIN edge_node2_y
       /\ HeightOut(<<f[1], f[2]>>) = 0
       /\ HeightIn(<<f[3], f[4]>>) > 0
====
